---- MODULE Spec2Model ----
(***************************************************************************)
(* Model of pull-server (src/pull-server/src/main.rs): an actix-web server *)
(* whose single handler `index` (GET /) runs `git pull` with the blocking  *)
(* std::process::Command::output() and maps the result to an HTTP          *)
(* response.                                                               *)
(*                                                                         *)
(* Text is modelled as sequences of Unicode code points, captured process  *)
(* output as sequences of bytes (0..255).                                  *)
(***************************************************************************)
EXTENDS Integers, Sequences, FiniteSets, TLC

(* ------------------------------ bounds --------------------------------- *)

\* Number of HTTP requests that arrive during a run of the model.
NumRequests == 2

\* Number of actix worker threads (HttpServer's default is the number of
\* CPU cores of the host; the source does not set it).
NumWorkers == 2

\* Longest run of padding units put before and after a stdout body.
MaxPad == 1

Requests == 1..NumRequests
Workers == 1..NumWorkers

NoWorker == 0

(* --------------------------- text helpers ------------------------------ *)

\* "Already up to date."
Marker == <<65, 108, 114, 101, 97, 100, 121, 32, 117, 112, 32, 116, 111, 32, 100, 97, 116, 101, 46>>

\* "Changes applied: "
ChangesAppliedPrefix == <<67, 104, 97, 110, 103, 101, 115, 32, 97, 112, 112, 108, 105, 101, 100, 58, 32>>

\* "No changes to apply"
NoChangesBody == <<78, 111, 32, 99, 104, 97, 110, 103, 101, 115, 32, 116, 111, 32, 97, 112, 112, 108, 121>>

\* "Error applying changes: "
ErrorPrefix == <<69, 114, 114, 111, 114, 32, 97, 112, 112, 108, 121, 105, 110, 103, 32, 99, 104, 97, 110, 103, 101, 115, 58, 32>>

\* U+FFFD REPLACEMENT CHARACTER, what lossy decoding puts for a malformed byte.
ReplacementChar == 65533

IsContinuation(b) == b >= 128 /\ b <= 191

IsLead2(b) == b >= 194 /\ b <= 223

\* String::from_utf8_lossy on the bytes the model draws (ASCII, two-byte
\* sequences, and bytes that are malformed where they stand): a well-formed
\* sequence decodes to its code point, every other byte to U+FFFD.
Utf8Lossy[bytes \in Seq(0..255)] ==
    IF bytes = <<>> THEN <<>>
    ELSE LET b == Head(bytes) IN
         IF b < 128 THEN <<b>> \o Utf8Lossy[Tail(bytes)]
         ELSE IF IsLead2(b) /\ Len(bytes) >= 2 /\ IsContinuation(bytes[2])
              THEN <<(b - 192) * 64 + (bytes[2] - 128)>> \o Utf8Lossy[Tail(Tail(bytes))]
              ELSE <<ReplacementChar>> \o Utf8Lossy[Tail(bytes)]

FromUtf8Lossy(bytes) == Utf8Lossy[bytes]

\* char::is_whitespace: the Unicode White_Space code points.
IsWhitespace(c) ==
    \/ c >= 9 /\ c <= 13
    \/ c = 32
    \/ c = 133
    \/ c = 160
    \/ c = 5760
    \/ c >= 8192 /\ c <= 8202
    \/ c \in {8232, 8233, 8239, 8287, 12288}

\* str::trim_start
TrimStart[s \in Seq(Nat)] ==
    IF s # <<>> /\ IsWhitespace(Head(s)) THEN TrimStart[Tail(s)] ELSE s

\* str::trim_end
TrimEnd[s \in Seq(Nat)] ==
    IF s # <<>> /\ IsWhitespace(s[Len(s)]) THEN TrimEnd[SubSeq(s, 1, Len(s) - 1)] ELSE s

\* A trim that also strips ASCII punctuation, as trim_matches with too wide
\* a character class would.
TrimPunct(s) ==
    LET Strip(c) == IsWhitespace(c) \/ (c >= 33 /\ c <= 47)
        first == IF \E i \in 1..Len(s) : ~Strip(s[i])
                 THEN CHOOSE i \in 1..Len(s) : ~Strip(s[i]) /\ \A j \in 1..(i - 1) : Strip(s[j])
                 ELSE Len(s) + 1
        last == IF \E i \in 1..Len(s) : ~Strip(s[i])
                THEN CHOOSE i \in 1..Len(s) : ~Strip(s[i]) /\ \A j \in (i + 1)..Len(s) : Strip(s[j])
                ELSE Len(s)
    IN SubSeq(s, first, last)

\* str::trim
Trim(s) == TrimEnd[TrimStart[s]]

\* str::contains with a string pattern
Contains(s, pat) ==
    \E i \in 1..(Len(s) - Len(pat) + 1) : SubSeq(s, i, i + Len(pat) - 1) = pat

(* ------------------------ the command's results ------------------------ *)

\* The Output of a command that has not exited (yet).
NoOutput == [exited |-> FALSE, success |-> FALSE, stdout |-> <<>>, stderr |-> <<>>]

\* "Updating a1..d4\nFast-forward"
UpdatingText == <<85, 112, 100, 97, 116, 105, 110, 103, 32, 97, 49, 46, 46, 100, 52, 10, 70, 97, 115, 116, 45, 102, 111, 114, 119, 97, 114, 100>>

\* "fatal: no host"
FatalText == <<102, 97, 116, 97, 108, 58, 32, 110, 111, 32, 104, 111, 115, 116>>

\* Padding put around a stdout body: newline, 'x', a byte that is never
\* valid UTF-8, and U+00A0 (a two-byte white-space character).
PadUnits == {<<10>>, <<120>>, <<255>>, <<194, 160>>}

RECURSIVE Pads(_)
Pads(n) ==
    IF n = 0 THEN {<<>>}
    ELSE Pads(n - 1) \cup {p \o u : p \in Pads(n - 1), u \in PadUnits}

\* The marker, the marker cut short of its full stop, an update report, nothing.
Bodies == {Marker, SubSeq(Marker, 1, Len(Marker) - 1), UpdatingText, <<>>}

Stdouts == {a \o b \o c : a \in Pads(MaxPad), b \in Bodies, c \in Pads(MaxPad)}

Stderrs == {<<>>, <<32>> \o FatalText \o <<10>>}

\* What std::process::Output can hold once the child has exited: any exit
\* status with any captured stdout and stderr.
Outputs == [exited : {TRUE}, success : BOOLEAN, stdout : Stdouts, stderr : Stderrs]

\* The results the concurrent specification draws: both markers of the
\* decision (exit status, marker in stdout) in every combination.
ScenarioOutputs ==
    [exited : {TRUE}, success : BOOLEAN,
     stdout : {Marker \o <<10>>, UpdatingText \o <<10>>},
     stderr : {<<32>> \o FatalText \o <<10>>}]

(* ------------------------------- state --------------------------------- *)

VARIABLES
    pc,             \* where each request is: idle, accepted, running, exited, done, panicked
    worker,         \* the worker thread a request's connection was handed to
    output,         \* the Output of each request's command
    responses,      \* the HTTP responses sent for each request, in order
    console,        \* what the server process has written to its own stdout
    launchedAfter   \* the requests already answered when a request's command was launched

vars == <<pc, worker, output, responses, console, launchedAfter>>

Init ==
    /\ pc = [r \in Requests |-> "idle"]
    /\ worker = [r \in Requests |-> NoWorker]
    /\ output = [r \in Requests |-> NoOutput]
    /\ responses = [r \in Requests |-> <<>>]
    /\ console = <<>>
    /\ launchedAfter = [r \in Requests |-> {}]

(* ------------------------------ handler -------------------------------- *)

\* The no-op branch answering 208 Already Reported.
IndexResponseAlreadyReported(out) ==
    LET stdout == FromUtf8Lossy(out.stdout) IN
    IF out.success /\ ~Contains(stdout, Marker)
    THEN [status |-> 200, body |-> ChangesAppliedPrefix \o Trim(stdout)]
    ELSE IF Contains(stdout, Marker)
    THEN [status |-> 208, body |-> NoChangesBody]
    ELSE [status |-> 500, body |-> ErrorPrefix \o Trim(FromUtf8Lossy(out.stderr))]

\* The bodies formatted from the untrimmed text.
IndexResponseUntrimmed(out) ==
    LET stdout == FromUtf8Lossy(out.stdout) IN
    IF out.success /\ ~Contains(stdout, Marker)
    THEN [status |-> 200, body |-> ChangesAppliedPrefix \o stdout]
    ELSE IF Contains(stdout, Marker)
    THEN [status |-> 204, body |-> NoChangesBody]
    ELSE [status |-> 500, body |-> ErrorPrefix \o FromUtf8Lossy(out.stderr)]

\* The marker compared for equality instead of searched for.
IndexResponseExact(out) ==
    LET stdout == FromUtf8Lossy(out.stdout) IN
    IF out.success /\ stdout # Marker
    THEN [status |-> 200, body |-> ChangesAppliedPrefix \o Trim(stdout)]
    ELSE IF stdout = Marker
    THEN [status |-> 204, body |-> NoChangesBody]
    ELSE [status |-> 500, body |-> ErrorPrefix \o Trim(FromUtf8Lossy(out.stderr))]

\* The if / else if / else of `index`, in the order the code tests.
IndexResponse(out) ==
    LET stdout == FromUtf8Lossy(out.stdout) IN
    IF out.success /\ ~Contains(stdout, Marker)
    THEN [status |-> 200, body |-> ChangesAppliedPrefix \o Trim(stdout)]
    ELSE IF Contains(stdout, Marker)
    THEN [status |-> 204, body |-> NoChangesBody]
    ELSE [status |-> 500, body |-> ErrorPrefix \o Trim(FromUtf8Lossy(out.stderr))]

\* A handler that echoes the trimmed stdout on the 200 branch.
IndexLogEcho(out) ==
    LET stdout == FromUtf8Lossy(out.stdout) IN
    IF out.success /\ ~Contains(stdout, Marker) THEN <<Trim(stdout)>> ELSE <<>>

\* The lines `index` writes to the server's own stdout: it has no print
\* statement on any branch.
IndexLog(out) == <<>>

\* A worker thread runs one handler at a time, and `index` never yields:
\* Command::output() blocks the thread from the launch to the response.
WorkerBusy(w) == \E r \in Requests : worker[r] = w /\ pc[r] \in {"running", "exited"}

\* The commands that have been launched and have not exited.
InFlight == {r \in Requests : pc[r] = "running"}

\* A launch that waits for a lock on the working directory.
CanLaunchLocked(r) ==
    /\ pc[r] = "accepted"
    /\ ~WorkerBusy(worker[r])
    /\ InFlight = {}

\* The handler of an accepted request starts as soon as its worker thread
\* polls it.
CanLaunch(r) ==
    /\ pc[r] = "accepted"
    /\ ~WorkerBusy(worker[r])

(* ------------------------------ actions -------------------------------- *)

\* The accept loop hands a new connection to one of the worker threads.
Accept(r, w) ==
    /\ pc[r] = "idle"
    /\ pc' = [pc EXCEPT ![r] = "accepted"]
    /\ worker' = [worker EXCEPT ![r] = w]
    /\ UNCHANGED <<output, responses, console, launchedAfter>>

\* Command::new("git").arg("pull").output() spawns the child.
LaunchOk(r) ==
    /\ CanLaunch(r)
    /\ pc' = [pc EXCEPT ![r] = "running"]
    /\ launchedAfter' = [launchedAfter EXCEPT ![r] = {q \in Requests : pc[q] = "done"}]
    /\ UNCHANGED <<worker, output, responses, console>>

\* A launch failure answered with a 500 instead of a panic.
LaunchFailAnswered(r) ==
    /\ CanLaunch(r)
    /\ pc' = [pc EXCEPT ![r] = "done"]
    /\ worker' = [worker EXCEPT ![r] = NoWorker]
    /\ responses' = [responses EXCEPT ![r] = Append(@, [status |-> 500, body |-> ErrorPrefix])]
    /\ UNCHANGED <<output, console, launchedAfter>>

\* output() returns Err and .expect("Failed to execute command") panics:
\* the handler's task ends with no response.
LaunchFail(r) ==
    /\ CanLaunch(r)
    /\ pc' = [pc EXCEPT ![r] = "panicked"]
    /\ worker' = [worker EXCEPT ![r] = NoWorker]
    /\ UNCHANGED <<output, responses, console, launchedAfter>>

\* The child exits and output() returns Ok(out).
CmdExit(r, out) ==
    /\ pc[r] = "running"
    /\ pc' = [pc EXCEPT ![r] = "exited"]
    /\ output' = [output EXCEPT ![r] = out]
    /\ UNCHANGED <<worker, responses, console, launchedAfter>>

\* A handler that gives up on a command still running and answers 500.
RespondOrTimeOut(r) ==
    /\ pc[r] \in {"running", "exited"}
    /\ pc' = [pc EXCEPT ![r] = "done"]
    /\ worker' = [worker EXCEPT ![r] = NoWorker]
    /\ responses' = [responses EXCEPT ![r] =
           Append(@, IF pc[r] = "exited" THEN IndexResponse(output[r])
                     ELSE [status |-> 500, body |-> ErrorPrefix])]
    /\ console' = console \o IndexLog(output[r])
    /\ UNCHANGED <<output, launchedAfter>>

\* The rest of `index`: classify the Output and return the response.
Respond(r) ==
    /\ pc[r] = "exited"
    /\ pc' = [pc EXCEPT ![r] = "done"]
    /\ worker' = [worker EXCEPT ![r] = NoWorker]
    /\ responses' = [responses EXCEPT ![r] = Append(@, IndexResponse(output[r]))]
    /\ console' = console \o IndexLog(output[r])
    /\ UNCHANGED <<output, launchedAfter>>

(* --------------------------- specifications ---------------------------- *)

\* The server under NumRequests concurrent requests.
Next ==
    \E r \in Requests :
        \/ \E w \in Workers : Accept(r, w)
        \/ LaunchOk(r)
        \/ LaunchFail(r)
        \/ \E out \in ScenarioOutputs : CmdExit(r, out)
        \/ Respond(r)

Spec == Init /\ [][Next]_vars

\* Once output() has returned, the handler's thread goes on to the
\* response; nothing makes a running command exit.
FairSpec == Spec /\ \A r \in Requests : WF_vars(Respond(r))

\* One request at a time, its command's Output drawn from all of Outputs.
NextHandler ==
    \E r \in {1} :
        \/ \E w \in Workers : Accept(r, w)
        \/ LaunchOk(r)
        \/ LaunchFail(r)
        \/ \E out \in Outputs : CmdExit(r, out)
        \/ Respond(r)

HandlerSpec == Init /\ [][NextHandler]_vars

(* ------------------------------ claims --------------------------------- *)

Decoded(bytes) == FromUtf8Lossy(bytes)

Answered(r) == pc[r] = "done" /\ output[r].exited

\* C1: every command that exits unsuccessfully is answered 500 with the body
\* "Error applying changes: " + trim(stderr), whatever stdout holds.
C1_FailureAnswered500 ==
    \A r \in Requests :
        (Answered(r) /\ ~output[r].success) =>
            responses[r] = <<[status |-> 500,
                              body |-> ErrorPrefix \o Trim(Decoded(output[r].stderr))]>>

\* C2: every command that exits successfully with no marker in its stdout is
\* answered 200 with the body "Changes applied: " + trim(stdout).
C2_SuccessAnswered200 ==
    \A r \in Requests :
        (Answered(r) /\ output[r].success /\ ~Contains(Decoded(output[r].stdout), Marker)) =>
            responses[r] = <<[status |-> 200,
                              body |-> ChangesAppliedPrefix \o Trim(Decoded(output[r].stdout))]>>

\* A successful update report with white space on both sides has been
\* answered with the report alone after the prefix.
C2_Witness ==
    \E r \in Requests :
        /\ Answered(r) /\ output[r].success
        /\ output[r].stdout = <<194, 160>> \o UpdatingText \o <<10>>
        /\ responses[r] = <<[status |-> 200, body |-> ChangesAppliedPrefix \o UpdatingText]>>

\* C3: every command that exits successfully with the marker in its stdout
\* is answered 204 with the body "No changes to apply", whatever stderr holds.
C3_NoOpAnswered204 ==
    \A r \in Requests :
        (Answered(r) /\ output[r].success /\ Contains(Decoded(output[r].stdout), Marker)) =>
            responses[r] = <<[status |-> 204, body |-> NoChangesBody]>>

\* A successful run with the marker between other text and a non-empty
\* stderr has been answered.
C3_Witness ==
    \E r \in Requests :
        /\ Answered(r) /\ output[r].success
        /\ output[r].stdout = <<120>> \o Marker \o <<10>>
        /\ output[r].stderr # <<>>
        /\ responses[r] = <<[status |-> 204, body |-> NoChangesBody]>>

\* C4: a request whose command cannot be launched ends in a panic: the step
\* that ends it without a launch sends no response and classifies nothing,
\* and a panicked request never has a response or an Output.
C4_LaunchFailurePanics ==
    /\ [](\A r \in Requests :
            pc[r] = "panicked" => responses[r] = <<>> /\ ~output[r].exited)
    /\ [][\A r \in Requests :
            (pc[r] = "accepted" /\ pc'[r] \notin {"accepted", "running"}) =>
                /\ pc'[r] = "panicked"
                /\ responses'[r] = <<>>
                /\ ~output'[r].exited]_vars

\* A request has panicked while another one has been answered.
C4_Witness ==
    \E r, q \in Requests : pc[r] = "panicked" /\ pc[q] = "done"

C6_RunningCommandStallsNobody ==
    \A r, q \in Requests :
        (r # q /\ pc[r] = "running" /\ pc[q] = "accepted") => ENABLED LaunchOk(q)

\* C7: nothing but its own worker thread holds a launch back, and nothing
\* orders the exits: an accepted request whose worker runs no handler can
\* launch whatever commands are in flight, and every command in flight can
\* be the next to exit.
C7_NoMutualExclusion ==
    /\ \A r \in Requests :
        (/\ pc[r] = "accepted"
         /\ \A q \in Requests : worker[q] = worker[r] => pc[q] \notin {"running", "exited"})
            => ENABLED LaunchOk(r)
    /\ \A r \in InFlight : ENABLED (\E out \in ScenarioOutputs : CmdExit(r, out))

\* The commands of two requests are in flight at the same time.
C7_Witness ==
    \E r, q \in Requests : r # q /\ {r, q} \subseteq InFlight

NothingNew(out) == out.exited /\ out.success /\ Contains(Decoded(out.stdout), Marker)

\* C8: two requests in a row whose commands both report nothing new are
\* both answered with the No-op outcome.
C8_Idempotent ==
    \A r, q \in Requests :
        (/\ r \in launchedAfter[q]
         /\ pc[q] = "done"
         /\ NothingNew(output[r])
         /\ NothingNew(output[q])) =>
            /\ responses[r] = <<[status |-> 204, body |-> NoChangesBody]>>
            /\ responses[q] = <<[status |-> 204, body |-> NoChangesBody]>>

\* A second request launched after the first was answered, both reporting
\* nothing new, has been answered.
C8_Witness ==
    \E r, q \in Requests :
        /\ r \in launchedAfter[q]
        /\ pc[q] = "done"
        /\ NothingNew(output[r])
        /\ NothingNew(output[q])

\* C9: no response before the command has exited (so none for a command
\* that never exits), never more than one, and exactly one eventually for
\* every command that exits.
C9_ResponseFollowsExit ==
    /\ [](\A r \in Requests :
            /\ Len(responses[r]) <= 1
            /\ responses[r] # <<>> => output[r].exited)
    /\ \A r \in Requests : output[r].exited ~> (Len(responses[r]) = 1)

\* One request has been answered while the command of another is still
\* running, unanswered.
C9_Witness ==
    \E r, q \in Requests :
        /\ pc[r] = "done" /\ Len(responses[r]) = 1
        /\ pc[q] = "running" /\ responses[q] = <<>>

\* C10: the untrimmed stdout holds the marker exactly when the trimmed stdout
\* does, and a successful run is answered No-op exactly when the trimmed
\* stdout holds the marker.
C10_MarkerCheckIgnoresTrim ==
    \A r \in Requests :
        output[r].exited =>
            /\ Contains(Decoded(output[r].stdout), Marker)
                   <=> Contains(Trim(Decoded(output[r].stdout)), Marker)
            /\ (pc[r] = "done" /\ output[r].success) =>
                   (responses[r][1].status = 204
                        <=> Contains(Trim(Decoded(output[r].stdout)), Marker))

\* A stdout with white space right before and right after the marker has
\* been classified.
C10_Witness ==
    \E r \in Requests :
        /\ pc[r] = "done" /\ output[r].success
        /\ output[r].stdout = <<194, 160>> \o Marker \o <<10>>
        /\ Trim(Decoded(output[r].stdout)) = Marker

====
